---- MODULE Spec2Model ----
(***************************************************************************)
(* SafetyHalo: the decision-and-alerting pipeline of src/App.tsx and the   *)
(* oracle client of src/types.ts (analyzeSafetyContext).                   *)
(*                                                                         *)
(* src/App.tsx holds two variants of the App component: variant 1 (lines   *)
(* 1-468: confidence gate, alerts flag, persisted settings and log, log    *)
(* capacity 50) and variant 2 (lines 470-932: no gate, no settings, no     *)
(* persistence, log capacity 10).  The variable `variant` selects which    *)
(* component is mounted; it never changes.                                 *)
(*                                                                         *)
(* Units: confidences and thresholds are percentages (0.75 is 75),         *)
(* temperatures are tenths of a degree, gas/smoke/noise levels are         *)
(* hundredths, tone durations and offsets are milliseconds.                *)
(*                                                                         *)
(* One action is one browser task: an event handler, a timer callback or   *)
(* the continuation of an awaited promise, together with the React render  *)
(* and effects (the localStorage writes) that follow its state updates.    *)
(***************************************************************************)
EXTENDS Integers, Sequences, FiniteSets, TLC

\* ------------------------------------------------------------- bounds
\* Scenario triggers per behaviour of Spec.
MaxCycles == 2
\* Oracle calls outstanding at the same time.
MaxInFlight == 2
\* Changes of a setting per behaviour.
MaxSettingChanges == 1
\* Scenario triggers per behaviour of SpecLog (enough to overflow a log of 10).
LogRunCycles == 11
\* Trend ticks per behaviour of SpecTrend (enough to overflow a buffer of 20).
TrendRunTicks == 21
\* Scenario triggers per behaviour of SpecTrend.
TrendRunCycles == 2
\* Page reloads per behaviour of SpecBoot.
MaxRestarts == 1
\* Scenario triggers per behaviour of SpecBoot.
BootRunCycles == 2
\* Scenario triggers per behaviour of SpecOracle.
OracleRunCycles == 2
\* Scenario buttons pressed per behaviour of SpecContext.
ContextRunPresses == 1
\* Scenario triggers and trend ticks per behaviour of SpecFrame.
FrameRunCycles == 2
FrameRunTicks == 1

\* -------------------------------------------------- program constants
LogCapV1 == 50
LogCapV2 == 10
TrendCap == 20
DangerBeepsV1 == 3
DangerBeepsV2 == 4
DefaultThresholdPct == 75
\* The period of the trend timer, in seconds.
TrendPeriod == 3

\* ---------------------------------------------------- JavaScript values
\* A setting read back from JSON is a boolean, a number or undefined (the
\* field is not in the stored record).
Undefined == [t |-> "undefined"]
Num(n) == [t |-> "num", v |-> n]
Bool(b) == [t |-> "bool", v |-> b]
\* What a variant without the state variable holds.
NotDeclared == [t |-> "not declared"]

\* Truthiness of a setting value: `!alertsEnabled`.
Truthy(x) == x.t = "bool" /\ x.v

\* ------------------------------------------------------------ types.ts
SafetyStatus == {"SAFE", "WARNING", "DANGER"}

MLState ==
  {"NORMAL", "NO_MOVEMENT", "FALL_LIKELY", "GAS_SMOKE_ALERT", "OVERHEAT_RISK",
   "LOUD_NOISE"}

\* --------------------------------------------------- scenario tables
INITIAL_SENSORS(v) ==
  IF v = 1
  THEN [motion_events_last_15min |-> 42, avg_temperature_c |-> 245,
        avg_humidity |-> 45, gas_level |-> 12, smoke_level |-> 5,
        noise_level |-> 20, door_open |-> FALSE]
  ELSE [motion_events_last_15min |-> 12, avg_temperature_c |-> 228,
        avg_humidity |-> 48, gas_level |-> 8, smoke_level |-> 2,
        noise_level |-> 15, door_open |-> FALSE]

SCENARIOS(v) ==
  LET I == INITIAL_SENSORS(v) IN
  IF v = 1
  THEN [NORMAL |->
          [ml_state |-> "NORMAL", sensors |-> I,
           notes |-> "Regular activity detected."],
        FALL |->
          [ml_state |-> "FALL_LIKELY",
           sensors |-> [I EXCEPT !.motion_events_last_15min = 120,
                                 !.noise_level = 80],
           notes |-> "Sudden spike in noise and motion followed by silence."],
        GAS_LEAK |->
          [ml_state |-> "GAS_SMOKE_ALERT",
           sensors |-> [I EXCEPT !.gas_level = 85, !.smoke_level = 10],
           notes |-> "High gas readings detected near kitchen area."],
        FIRE |->
          [ml_state |-> "GAS_SMOKE_ALERT",
           sensors |-> [I EXCEPT !.smoke_level = 90, !.avg_temperature_c = 452],
           notes |-> "Smoke and rapid temperature increase."],
        INACTIVE |->
          [ml_state |-> "NO_MOVEMENT",
           sensors |-> [I EXCEPT !.motion_events_last_15min = 0],
           notes |-> "No movement for extended period at night."],
        LOUD_NOISE |->
          [ml_state |-> "LOUD_NOISE",
           sensors |-> [I EXCEPT !.noise_level = 95],
           notes |-> "Sustained high decibel levels detected."]]
  ELSE [NORMAL |->
          [ml_state |-> "NORMAL", sensors |-> I,
           notes |-> "Baseline resident activity."],
        FALL_INCIDENT |->
          [ml_state |-> "FALL_LIKELY",
           sensors |-> [I EXCEPT !.motion_events_last_15min = 145,
                                 !.noise_level = 88],
           notes |-> "Sharp acoustic peak followed by sustained immobility."],
        GAS_DETECTED |->
          [ml_state |-> "GAS_SMOKE_ALERT",
           sensors |-> [I EXCEPT !.gas_level = 92, !.smoke_level = 15],
           notes |-> "Concentrated gas reading detected in kitchenette."],
        THERMAL_ALERT |->
          [ml_state |-> "OVERHEAT_RISK",
           sensors |-> [I EXCEPT !.avg_temperature_c = 485, !.smoke_level = 40],
           notes |-> "Rapid localized temperature delta identified."],
        NIGHT_INACTIVE |->
          [ml_state |-> "NO_MOVEMENT",
           sensors |-> [I EXCEPT !.motion_events_last_15min = 0],
           notes |-> "Zero activity detected during expected active hours."],
        DISTURBANCE |->
          [ml_state |-> "LOUD_NOISE",
           sensors |-> [I EXCEPT !.noise_level = 98],
           notes |-> "Unusual high-frequency noise detected."]]

\* The scenario buttons the behaviours press.
TriggerKeys(v) == IF v = 1 THEN {"NORMAL", "GAS_LEAK"} ELSE {"NORMAL", "GAS_DETECTED"}

\* Math.random() in triggerScenario, as the number k of steps of 1/35
\* (variant 1) or 1/14 (variant 2) it yields, so that the generated
\* confidence is a whole percentage: 0.65 + (k/35) * 0.35, 0.85 + (k/14) * 0.14.
RandomSteps(v) == IF v = 1 THEN 0 .. 34 ELSE 0 .. 13

\* The draws the behaviours make: 65%, 75% and 90% in variant 1 (below, at
\* and above the thresholds 75% and 90%), 85% in variant 2.
TriggerDraws(v) == IF v = 1 THEN {0, 10, 25} ELSE {0}

\* A generator whose random part is twice as wide as the source's.
generatedConfidenceWide(v, k) == IF v = 1 THEN 65 + 2 * k ELSE 85 + 2 * k

generatedConfidence(v, k) == IF v = 1 THEN 65 + k ELSE 85 + k

\* ------------------------------------------------------------ the gate
\* A gate that compares with > where the source compares with >=.
GatePassesStrict(conf, threshold) == threshold.t = "num" /\ conf > threshold.v

\* `generatedConfidence >= confidenceThreshold`: a comparison with undefined
\* is false.
GatePasses(conf, threshold) == threshold.t = "num" /\ conf >= threshold.v

\* The template literal of the gate-skip summary: its literal chunks and the
\* one expression it interpolates, (generatedConfidence * 100).toFixed(0).
GateSkipSummary(conf) ==
  << [lit |-> "ML Confidence ("],
     [pct |-> conf],
     [lit |-> "%) below gate threshold. AI check skipped."] >>

\* The string a template literal evaluates to.
RECURSIVE Interpolate(_)
Interpolate(parts) ==
  IF parts = <<>> THEN ""
  ELSE (IF "pct" \in DOMAIN Head(parts) THEN ToString(Head(parts).pct)
        ELSE Head(parts).lit) \o Interpolate(Tail(parts))

\* The report triggerScenario publishes when the gate blocks the oracle.
GateSkipReport(conf) ==
  [status |-> "SAFE",
   summary |-> Interpolate(GateSkipSummary(conf)),
   actions_for_user |-> <<"Manual sensor check recommended.">>,
   actions_for_warden |-> <<"Monitor logs.">>]

\* -------------------------------------------------------- RoomContext
Context(v, key, conf, now) ==
  [room_id |-> IF v = 1 THEN "HOSTEL_A_204" ELSE "WEST_WING_B4",
   time |-> now,
   ml_state |-> SCENARIOS(v)[key].ml_state,
   ml_confidence |-> conf,
   sensors |-> SCENARIOS(v)[key].sensors,
   expected_occupancy |-> IF v = 1 THEN "occupied_at_night" ELSE "occupied",
   notes |-> SCENARIOS(v)[key].notes]

\* ------------------------------------------------ analyzeSafetyContext
\* What the request of one call comes to: generateContent rejects
\* (transport error, timeout) or resolves with a response whose text is
\* missing, is not JSON, is the JSON null, or is a JSON object.
Rejects == [kind |-> "reject"]
Responds(text) == [kind |-> "response", text |-> text]
NoText == [json |-> "none"]
InvalidText == [json |-> "invalid"]
NullText == [json |-> "null"]
ObjectText(data) == [json |-> "object", data |-> data]

EmptyObject == <<>>

FullData(status) ==
  [status |-> status, summary |-> "Oracle assessment.",
   actions_for_user |-> <<"Follow the safety steps.">>,
   actions_for_warden |-> <<"Inspect the room.">>]

\* A response without status and actions_for_warden.
PartialData ==
  [summary |-> "Partial assessment.", actions_for_user |-> <<"Stay calm.">>]

\* A response without actions_for_warden.
NoWardenData ==
  [status |-> "DANGER", summary |-> "Gas detected.",
   actions_for_user |-> <<"Evacuate.">>]

\* JSON.parse(response.text || "{}")
ParseResponseText(text) ==
  IF text.json = "none" THEN [threw |-> FALSE, isNull |-> FALSE, data |-> EmptyObject]
  ELSE IF text.json = "invalid" THEN [threw |-> TRUE, isNull |-> FALSE, data |-> EmptyObject]
  ELSE IF text.json = "null" THEN [threw |-> FALSE, isNull |-> TRUE, data |-> EmptyObject]
  ELSE [threw |-> FALSE, isNull |-> FALSE, data |-> text.data]

\* data.f || default, for a string field and for an array field (an array,
\* even an empty one, is truthy).
StringOr(data, f, default) ==
  IF f \in DOMAIN data /\ data[f] # "" THEN data[f] ELSE default

ArrayOr(data, f, default) == IF f \in DOMAIN data THEN data[f] ELSE default

\* A try block that takes a response with an absent field for a failure.
BuildReportAllOrNothing(data) ==
  IF {"status", "summary", "actions_for_user", "actions_for_warden"}
       \subseteq DOMAIN data
  THEN [status |-> data.status, summary |-> data.summary,
        actions_for_user |-> data.actions_for_user,
        actions_for_warden |-> data.actions_for_warden]
  ELSE [status |-> "SAFE",
        summary |-> "Communication error with AI. Falling back to local heuristics.",
        actions_for_user |-> <<"Check sensors manually.">>,
        actions_for_warden |-> <<"None needed.">>]

\* The report of the try block.
BuildReport(data) ==
  [status |-> StringOr(data, "status", "SAFE"),
   summary |-> StringOr(data, "summary", "No analysis available."),
   actions_for_user |-> ArrayOr(data, "actions_for_user", <<>>),
   actions_for_warden |-> ArrayOr(data, "actions_for_warden", <<"None needed.">>)]

\* A catch block whose report raises an alarm.
FallbackReportAlarming ==
  [status |-> "WARNING",
   summary |-> "Communication error with AI. Falling back to local heuristics.",
   actions_for_user |-> <<"Check sensors manually.">>,
   actions_for_warden |-> <<"None needed.">>]

\* The report of the catch block.
FallbackReport ==
  [status |-> "SAFE",
   summary |-> "Communication error with AI. Falling back to local heuristics.",
   actions_for_user |-> <<"Check sensors manually.">>,
   actions_for_warden |-> <<"None needed.">>]

\* Does the try block throw on this outcome?  A rejected request, a text
\* that does not parse, or a property read on null.
TryBlockThrows(outcome) ==
  \/ outcome.kind = "reject"
  \/ /\ outcome.kind = "response"
     /\ LET p == ParseResponseText(outcome.text) IN p.threw \/ p.isNull

\* analyzeSafetyContext(context): the promise it returns.  The client is
\* constructed before the try block, so a constructor that throws (no API
\* key) rejects the promise; everything inside the try block settles to a
\* report.
analyzeSafetyContext(apiKey, outcome) ==
  IF ~apiKey THEN [settled |-> "rejected", report |-> FallbackReport]
  ELSE IF TryBlockThrows(outcome)
  THEN [settled |-> "fulfilled", report |-> FallbackReport]
  ELSE [settled |-> "fulfilled",
        report |-> BuildReport(ParseResponseText(outcome.text).data)]

\* ----------------------------------------------------- playAlertSound
Beep(freq, duration, startTime) ==
  [freq |-> freq, duration |-> duration, startTime |-> startTime]

\* A dispatcher with the two patterns exchanged.
AlertPatternSwapped(v, status) ==
  IF status = "WARNING"
  THEN [i \in 1 .. DangerBeepsV1 |-> Beep(880, 200, (i - 1) * 250)]
  ELSE IF status = "DANGER" THEN <<Beep(440, 400, 0)>>
  ELSE <<>>

\* The tones scheduled for a status once the audio context is there.
AlertPattern(v, status) ==
  IF status = "DANGER"
  THEN IF v = 1
       THEN [i \in 1 .. DangerBeepsV1 |-> Beep(880, 200, (i - 1) * 250)]
       ELSE [i \in 1 .. DangerBeepsV2 |-> Beep(900, 150, (i - 1) * 200)]
  ELSE IF status = "WARNING"
  THEN IF v = 1 THEN <<Beep(440, 400, 0)>> ELSE <<Beep(440, 500, 0)>>
  ELSE <<>>

\* Does playAlertSound return at its first line?  Variant 1 reads the
\* alertsEnabled of the render its callback was created in; variant 2 has
\* no flag.
ReturnsEarly(v, enabledSeen) == v = 1 /\ ~Truthy(enabledSeen)

\* playAlertSound(status): whether it threw (the AudioContext constructor,
\* when the platform has no audio), whether it created the context, and the
\* tones it scheduled.
playAlertSound(v, enabledSeen, ctxExists, audioAvailable, status) ==
  IF ReturnsEarly(v, enabledSeen)
  THEN [threw |-> FALSE, created |-> FALSE, beeps |-> <<>>]
  ELSE IF ~ctxExists /\ ~audioAvailable
  THEN [threw |-> TRUE, created |-> FALSE, beeps |-> <<>>]
  ELSE [threw |-> FALSE, created |-> ~ctxExists, beeps |-> AlertPattern(v, status)]

\* The condition under which runAnalysis calls playAlertSound.
CallsPlayAlertSound(v, status) ==
  IF v = 1 THEN status = "WARNING" \/ status = "DANGER" ELSE status # "SAFE"

\* ------------------------------------------------------ the event log
LogCap(v) == IF v = 1 THEN LogCapV1 ELSE LogCapV2

\* n.toFixed(1) of a value held in tenths.
ToFixed1(tenths) == ToString(tenths \div 10) \o "." \o ToString(tenths % 10)

\* The template literal of sensor_summary (the degree sign is written deg).
SensorSummary(v, s) ==
  IF v = 1
  THEN "T: " \o ToFixed1(s.avg_temperature_c) \o "degC | G: "
       \o ToString(s.gas_level) \o "% | N: " \o ToString(s.noise_level) \o "%"
  ELSE "T:" \o ToFixed1(s.avg_temperature_c) \o " G:" \o ToString(s.gas_level)

\* A LogEntry stamped with the time of its context, the trigger time.
NewLogStampedAtTrigger(v, report, currentContext, now) ==
  [timestamp |-> currentContext.time,
   status |-> report.status,
   ml_state |-> currentContext.ml_state,
   sensor_summary |-> SensorSummary(v, currentContext.sensors)]

\* The LogEntry built inside the setLogs updater; `now` is the time the
\* updater runs at.
NewLog(v, report, currentContext, now) ==
  [timestamp |-> now,
   status |-> report.status,
   ml_state |-> currentContext.ml_state,
   sensor_summary |-> SensorSummary(v, currentContext.sensors)]

Min(a, b) == IF a <= b THEN a ELSE b

\* An append that never truncates: [newLog, ...prev].
AppendLogUnbounded(v, prev, newLog) == <<newLog>> \o prev

\* An append that truncates at the wrong end: [newLog, ...prev].slice(-cap).
AppendLogKeepTail(v, prev, newLog) ==
  LET all == <<newLog>> \o prev IN
  IF Len(all) <= LogCap(v) THEN all
  ELSE SubSeq(all, Len(all) - LogCap(v) + 1, Len(all))

\* [newLog, ...prev].slice(0, cap)
AppendLog(v, prev, newLog) ==
  SubSeq(<<newLog>> \o prev, 1, Min(Len(prev) + 1, LogCap(v)))

\* ---------------------------------------------------- the trend buffer
\* Three Math.random() draws per tick, each as a number 0..9 of tenths.
\* Variant 1 keeps gas and noise as fractions (held here in thousandths),
\* variant 2 as percentages (held here in tenths of a percent).
TrendPoint(v, s, draws, now) ==
  [time |-> now,
   temp |-> s.avg_temperature_c + draws[1] - 5,
   gas |-> IF v = 1 THEN s.gas_level * 10 + draws[2] * 2
           ELSE s.gas_level * 10 + draws[2] * 5,
   noise |-> s.noise_level * 10 + draws[3] * 10]

\* A buffer that truncates at the wrong end: [...prev, point].slice(0, 20).
TrendAppendKeepOldest(prev, point) ==
  LET all == Append(prev, point) IN
  IF Len(all) <= TrendCap THEN all ELSE SubSeq(all, 1, TrendCap)

\* [...prev, point].slice(-20)
TrendAppend(prev, point) ==
  LET all == Append(prev, point) IN
  IF Len(all) <= TrendCap THEN all
  ELSE SubSeq(all, Len(all) - TrendCap + 1, Len(all))

\* ---------------------------------------------------- durable storage
\* A localStorage item: absent, a text JSON.parse rejects, or the JSON of
\* an object (settings) or of an array (log).
Missing == [kind |-> "missing"]
Corrupt == [kind |-> "corrupt"]
StoredObject(data) == [kind |-> "object", data |-> data]
StoredArray(entries) == [kind |-> "array", entries |-> entries]
\* The JSON null, and any other JSON text that is neither an array nor null
\* (an object, a number, a string).
StoredNull == [kind |-> "null"]
StoredOther == [kind |-> "other"]

\* useState initialiser of alertsEnabled.
LoadAlertsEnabled(saved) ==
  IF saved.kind = "object"
  THEN IF "alertsEnabled" \in DOMAIN saved.data
       THEN saved.data.alertsEnabled ELSE Undefined
  ELSE Bool(TRUE)

\* useState initialiser of confidenceThreshold.
LoadConfidenceThreshold(saved) ==
  IF saved.kind = "object"
  THEN IF "confidenceThreshold" \in DOMAIN saved.data
       THEN saved.data.confidenceThreshold ELSE Undefined
  ELSE Num(DefaultThresholdPct)

\* useState initialiser of logs: is the value it returns an array?  A
\* missing item and a text that does not parse give []; any text that
\* parses gives what it parses to, array or not.
LoadLogsIsArray(savedLogs) == savedLogs.kind \in {"missing", "corrupt", "array"}

\* useState initialiser of logs: the entries of the array it returns (of no
\* meaning when the value is not an array).
LoadLogs(savedLogs) ==
  IF savedLogs.kind = "array" THEN savedLogs.entries ELSE <<>>

\* JSON.stringify({ alertsEnabled, confidenceThreshold }): a field whose
\* value is undefined is left out.
StringifySettings(enabled, threshold) ==
  LET value(f) == IF f = "alertsEnabled" THEN enabled ELSE threshold IN
  StoredObject([f \in {g \in {"alertsEnabled", "confidenceThreshold"} :
                         value(g).t # "undefined"} |-> value(f)])

\* JSON.stringify(logs)
StringifyLogs(entries) == StoredArray(entries)

\* JSON.stringify(logs) of the logs effect, for a value that may not be an
\* array: a value that came from JSON.parse is written back as it was read.
StringifyLogsValue(isArray, entries, readFrom) ==
  IF isArray THEN StringifyLogs(entries) ELSE readFrom

\* An entry an earlier session of variant 1 left in the stored log; entry 1
\* is the newest, and all are older than anything this session records.
PriorEntry(i) ==
  [timestamp |-> 0 - i,
   status |-> IF i % 2 = 0 THEN "SAFE" ELSE "WARNING",
   ml_state |-> "NORMAL",
   sensor_summary |-> SensorSummary(1, INITIAL_SENSORS(1))]

PriorLog(n) == [i \in 1 .. n |-> PriorEntry(i)]

\* ---------------------------------------------------------------- state
VARIABLES
  variant,             \* 1 or 2: which App component is mounted
  apiKey,              \* process.env.API_KEY is set (GoogleGenAI can be constructed)
  audioAvailable,      \* the platform can construct an AudioContext
  isAuthenticated, sensors, mlState, mlConfidence, safetyReport, isAnalyzing,
  history, logs, alertsEnabled, confidenceThreshold,
  audioCtx,            \* audioCtxRef.current is set
  settingsStore,       \* localStorage[SETTINGS_KEY]
  logsStore,           \* localStorage[LOCAL_STORAGE_KEY]
  inflight,            \* runAnalysis calls suspended at their await, each
                       \* with the record of its cycle
  clock,               \* the time new Date() reads
  ticks,               \* trend ticks fired so far
  settingChanges,      \* setter calls so far
  triggered,           \* triggerScenario calls so far
  cycle,               \* history: the record of the evaluation cycle that the
                       \* latest trigger or continuation belonged to
  sensorsRef,          \* which object `sensors` refers to: "INITIAL" or the
                       \* key of the scenario whose sensors object it is
  timerAge,            \* seconds since the trend effect called setInterval
  sinceTick,           \* history: seconds since the latest trend point (or
                       \* since the start), at most TrendPeriod + 1
  logsIsArray,         \* Array.isArray(logs)
  crashed,             \* a render threw and React unmounted the component
  settingsAtBoot,      \* history: localStorage[SETTINGS_KEY] at the start
  logsAtBoot,          \* history: localStorage[LOCAL_STORAGE_KEY] at the start
  restarts             \* page reloads so far

timerVars == <<sensorsRef, timerAge, sinceTick>>
bootVars == <<logsIsArray, crashed, settingsAtBoot, logsAtBoot, restarts>>

vars ==
  <<variant, apiKey, audioAvailable, isAuthenticated, sensors, mlState,
    mlConfidence, safetyReport, isAnalyzing, history, logs, alertsEnabled,
    confidenceThreshold, audioCtx, settingsStore, logsStore, inflight, clock,
    ticks, settingChanges, triggered, cycle, timerVars, bootVars>>

Null == [t |-> "null"]

\* What localStorage may hold when variant 1 starts: nothing, or what an
\* earlier session of the same program wrote.
SettingsAtStart ==
  {Missing,
   StringifySettings(Bool(FALSE), Num(90))}

LogsAtStart == {Missing, StringifyLogs(PriorLog(LogCapV1 - 1))}

\* The state after the first render and its effects.
Mounted(v, savedSettings, savedLogs, key, audio) ==
  /\ variant = v
  /\ apiKey = key
  /\ audioAvailable = audio
  /\ isAuthenticated = FALSE
  /\ sensors = INITIAL_SENSORS(v)
  /\ mlState = "NORMAL"
  /\ mlConfidence = IF v = 1 THEN 98 ELSE 99
  /\ safetyReport = Null
  /\ isAnalyzing = FALSE
  /\ history = <<>>
  /\ audioCtx = FALSE
  /\ inflight = {}
  /\ clock = 1
  /\ ticks = 0
  /\ settingChanges = 0
  /\ triggered = 0
  /\ cycle = Null
  /\ sensorsRef = "INITIAL"
  /\ timerAge = 0
  /\ sinceTick = 0
  /\ crashed = FALSE
  /\ restarts = 0
  /\ settingsAtBoot = savedSettings
  /\ logsAtBoot = savedLogs
  /\ IF v = 1
     THEN /\ alertsEnabled = LoadAlertsEnabled(savedSettings)
          /\ confidenceThreshold = LoadConfidenceThreshold(savedSettings)
          /\ logs = LoadLogs(savedLogs)
          /\ logsIsArray = LoadLogsIsArray(savedLogs)
          /\ settingsStore = StringifySettings(alertsEnabled, confidenceThreshold)
          /\ logsStore = StringifyLogsValue(logsIsArray, logs, savedLogs)
     ELSE /\ alertsEnabled = NotDeclared
          /\ confidenceThreshold = NotDeclared
          /\ logs = <<>>
          /\ logsIsArray = TRUE
          /\ settingsStore = savedSettings
          /\ logsStore = savedLogs

\* A first start: localStorage holds nothing.
Init ==
  \E v \in {1, 2}, key \in BOOLEAN, audio \in BOOLEAN :
    Mounted(v, Missing, Missing, key, audio)

\* ------------------------------------------------------------- actions
\* A triggerScenario that never consults the gate.
EscalatesUngated(v, conf, threshold) == TRUE

\* A gate that keeps the threshold it read when the component was mounted
\* with nothing stored.
EscalatesCachedThreshold(v, conf, threshold) ==
  IF v = 1 THEN conf >= DefaultThresholdPct ELSE TRUE

\* Does triggerScenario hand the context to runAnalysis?  Variant 1 asks
\* the gate; variant 2 calls runAnalysis unconditionally.
Escalates(v, conf, threshold) ==
  IF v = 1 THEN GatePasses(conf, threshold) ELSE TRUE

\* The steps of triggerScenario, in the order of its statements, under the
\* names the pipeline's phases have: the context is built, the gate is
\* asked (variant 1 only), then runAnalysis is called or the gate-skip
\* report is published; a call rejected at once ends in the catch and
\* finally blocks.
TriggerEvents(v, escalated, key) ==
  <<"ASSEMBLING">>
  \o (IF v = 1 THEN <<"GATING">> ELSE <<>>)
  \o (IF escalated
      THEN <<"ANALYZING">> \o (IF key THEN <<>> ELSE <<"IDLE">>)
      ELSE <<"SKIPPED", "REPORT_READY", "IDLE">>)

\* A continuation that calls playAlertSound before it publishes the report.
ResumeEventsAlertFirst(plays, threw) ==
  (IF plays THEN <<"ALERTING">> ELSE <<>>)
  \o <<"REPORT_READY">>
  \o (IF threw THEN <<>> ELSE <<"LOGGING">>)
  \o <<"IDLE">>

\* The steps of the continuation of runAnalysis, in the order of its
\* statements: setSafetyReport, playAlertSound (for an alarming status),
\* setLogs (unless playAlertSound threw), finally.
ResumeEvents(plays, threw) ==
  <<"REPORT_READY">>
  \o (IF plays THEN <<"ALERTING">> ELSE <<>>)
  \o (IF threw THEN <<>> ELSE <<"LOGGING">>)
  \o <<"IDLE">>

\* The record of a cycle at its trigger.  A call suspended in runAnalysis
\* keeps the context it was given and the playAlertSound of the render it
\* was created in, and with it that render's alertsEnabled (enabledSeen).
CycleStarted(id, context, escalated) ==
  [id |-> id,
   context |-> context,
   threshold |-> confidenceThreshold,
   escalated |-> escalated,
   enabledSeen |-> alertsEnabled,
   oracleCalls |-> IF escalated THEN 1 ELSE 0,
   phase |-> IF ~escalated THEN "skipped"
             ELSE IF apiKey THEN "analyzing" ELSE "rejected",
   failed |-> escalated /\ ~apiKey,
   published |-> IF escalated THEN Null ELSE GateSkipReport(context.ml_confidence),
   logged |-> 0,       \* calls of setLogs
   lenBefore |-> Len(logs),
   playCalled |-> FALSE,
   beeps |-> <<>>,
   flagAtReport |-> Null,
   outcome |-> Null,   \* what the oracle's request came to
   events |-> TriggerEvents(variant, escalated, apiKey)]

\* The body of triggerScenario(key), with Math.random() yielding k steps.
\* An escalated context starts runAnalysis: setIsAnalyzing(true), then
\* analyzeSafetyContext is called and runAnalysis suspends at its await.
\* Without an API key the client constructor throws, the promise is
\* rejected, and the catch and finally blocks of runAnalysis run before any
\* other task: nothing is published or logged, isAnalyzing is false again.
TriggerBody(key, k) ==
  LET conf == generatedConfidence(variant, k)
      context == Context(variant, key, conf, clock)
      escalated == Escalates(variant, conf, confidenceThreshold)
      started == CycleStarted(triggered + 1, context, escalated)
  IN
  /\ sensors' = context.sensors
  /\ mlState' = context.ml_state
  /\ mlConfidence' = conf
  /\ clock' = clock + 1
  /\ triggered' = triggered + 1
  /\ cycle' = started
  /\ sensorsRef' = key
  /\ timerAge' = IF sensorsRef = key THEN timerAge ELSE 0
  /\ IF escalated
     THEN /\ inflight' = IF apiKey THEN inflight \cup {started} ELSE inflight
          /\ isAnalyzing' = apiKey
          /\ safetyReport' = safetyReport
     ELSE /\ safetyReport' = GateSkipReport(conf)
          /\ UNCHANGED <<inflight, isAnalyzing>>
  /\ UNCHANGED <<variant, apiKey, audioAvailable, history, logs, alertsEnabled,
                 confidenceThreshold, audioCtx, settingsStore, logsStore, ticks,
                 settingChanges, sinceTick, logsIsArray, settingsAtBoot,
                 logsAtBoot, restarts>>

\* A click on a scenario button (rendered only when authenticated).
triggerScenario(key, k) ==
  /\ isAuthenticated
  /\ ~crashed
  /\ TriggerBody(key, k)
  /\ UNCHANGED <<isAuthenticated, crashed>>

\* The login button (variant 1) or a correct PIN (variant 2).  The
\* dashboard is rendered, and its log table calls logs.map: when logs is
\* not an array the render throws and React unmounts the component.
\* Otherwise, in variant 1, the effect on isAuthenticated then triggers the
\* NORMAL scenario.
Login(k) ==
  /\ ~isAuthenticated
  /\ ~crashed
  /\ isAuthenticated' = TRUE
  /\ crashed' = ~logsIsArray
  /\ IF logsIsArray /\ variant = 1
     THEN TriggerBody("NORMAL", k)
     ELSE UNCHANGED <<variant, apiKey, audioAvailable, sensors, mlState,
                      mlConfidence, safetyReport, isAnalyzing, history, logs,
                      alertsEnabled, confidenceThreshold, audioCtx,
                      settingsStore, logsStore, inflight, clock, ticks,
                      settingChanges, triggered, cycle, timerVars,
                      logsIsArray, settingsAtBoot, logsAtBoot, restarts>>

\* The logout button.  The component stays mounted.
Logout ==
  /\ isAuthenticated
  /\ ~crashed
  /\ isAuthenticated' = FALSE
  /\ UNCHANGED <<variant, apiKey, audioAvailable, sensors, mlState,
                 mlConfidence, safetyReport, isAnalyzing, history, logs,
                 alertsEnabled, confidenceThreshold, audioCtx, settingsStore,
                 logsStore, inflight, clock, ticks, settingChanges, triggered,
                 cycle, timerVars, bootVars>>

\* An entry built from the classifier state and sensors on display when the
\* call answers.
LoggedContextCurrent(currentContext, shownState, shownSensors) ==
  [currentContext EXCEPT !.ml_state = shownState, !.sensors = shownSensors]

\* The context the log entry is built from: currentContext, the parameter
\* of runAnalysis, not the mlState and sensors of the component.
LoggedContext(currentContext, shownState, shownSensors) == currentContext

\* The log after the continuation of runAnalysis: an exception of
\* playAlertSound leaves the try block before setLogs.
LogsAfterReport(v, prev, threw, newLog) ==
  IF threw THEN prev ELSE AppendLog(v, prev, newLog)

\* The continuation of runAnalysis after `await analyzeSafetyContext(...)`,
\* when the request of `call` comes to `outcome`: publish the report, call
\* playAlertSound for an alarming status, append the log entry (persisted
\* by the effect on logs), clear isAnalyzing.
runAnalysisResumes(call, outcome) ==
  LET result == analyzeSafetyContext(apiKey, outcome)
      report == result.report
      plays == CallsPlayAlertSound(variant, report.status)
      sound == IF plays
               THEN playAlertSound(variant, call.enabledSeen, audioCtx,
                                   audioAvailable, report.status)
               ELSE [threw |-> FALSE, created |-> FALSE, beeps |-> <<>>]
      newLog == NewLog(variant, report,
                       LoggedContext(call.context, mlState, sensors), clock)
  IN
  /\ call \in inflight
  /\ inflight' = inflight \ {call}
  /\ safetyReport' = report
  /\ audioCtx' = (audioCtx \/ sound.created)
  /\ logs' = LogsAfterReport(variant, logs, sound.threw, newLog)
  /\ logsStore' = IF variant = 1 THEN StringifyLogs(logs') ELSE logsStore
  /\ isAnalyzing' = FALSE
  /\ clock' = clock + 1
  /\ cycle' =
       [call EXCEPT !.phase = IF sound.threw THEN "alert failed" ELSE "completed",
                    !.failed = TryBlockThrows(outcome),
                    !.published = report,
                    !.logged = IF sound.threw THEN 0 ELSE 1,
                    !.lenBefore = Len(logs),
                    !.playCalled = plays,
                    !.beeps = sound.beeps,
                    !.flagAtReport = alertsEnabled,
                    !.outcome = outcome,
                    !.events = call.events \o ResumeEvents(plays, sound.threw)]
  /\ UNCHANGED <<variant, apiKey, audioAvailable, isAuthenticated, sensors,
                 mlState, mlConfidence, history, alertsEnabled,
                 confidenceThreshold, settingsStore, ticks, settingChanges,
                 triggered, timerVars, bootVars>>

\* setAlertsEnabled(b) from the settings control of the dashboard, followed
\* by the effect that rewrites the settings.
SetAlertsEnabled(b) ==
  /\ variant = 1
  /\ isAuthenticated
  /\ ~crashed
  /\ alertsEnabled # Bool(b)
  /\ alertsEnabled' = Bool(b)
  /\ settingsStore' = StringifySettings(alertsEnabled', confidenceThreshold)
  /\ settingChanges' = settingChanges + 1
  /\ UNCHANGED <<variant, apiKey, audioAvailable, isAuthenticated, sensors,
                 mlState, mlConfidence, safetyReport, isAnalyzing, history,
                 logs, confidenceThreshold, audioCtx, logsStore, inflight,
                 clock, ticks, triggered, cycle, timerVars, bootVars>>

\* setConfidenceThreshold(t) from the settings control of the dashboard,
\* followed by the effect that rewrites the settings.
SetConfidenceThreshold(t) ==
  /\ variant = 1
  /\ isAuthenticated
  /\ ~crashed
  /\ confidenceThreshold # Num(t)
  /\ confidenceThreshold' = Num(t)
  /\ settingsStore' = StringifySettings(alertsEnabled, confidenceThreshold')
  /\ settingChanges' = settingChanges + 1
  /\ UNCHANGED <<variant, apiKey, audioAvailable, isAuthenticated, sensors,
                 mlState, mlConfidence, safetyReport, isAnalyzing, history,
                 logs, alertsEnabled, audioCtx, logsStore, inflight, clock,
                 ticks, triggered, cycle, timerVars, bootVars>>

\* A tick whose callback still holds the sensors of the first render (an
\* effect that is never run again).
TrendTickStale(draws) ==
  /\ ~crashed
  /\ timerAge = TrendPeriod
  /\ history' = TrendAppend(history, TrendPoint(variant, INITIAL_SENSORS(variant),
                                                draws, ticks + 1))
  /\ ticks' = ticks + 1
  /\ timerAge' = 0
  /\ sinceTick' = 0
  /\ UNCHANGED <<variant, apiKey, audioAvailable, isAuthenticated, sensors,
                 mlState, mlConfidence, safetyReport, isAnalyzing, logs,
                 alertsEnabled, confidenceThreshold, audioCtx, settingsStore,
                 logsStore, inflight, clock, settingChanges, triggered, cycle,
                 sensorsRef, bootVars>>

\* A tick that also takes the report off the display.
TrendTickClearsReport(draws) ==
  /\ ~crashed
  /\ timerAge = TrendPeriod
  /\ history' = TrendAppend(history, TrendPoint(variant, sensors, draws, ticks + 1))
  /\ ticks' = ticks + 1
  /\ timerAge' = 0
  /\ sinceTick' = 0
  /\ safetyReport' = Null
  /\ UNCHANGED <<variant, apiKey, audioAvailable, isAuthenticated, sensors,
                 mlState, mlConfidence, isAnalyzing, logs,
                 alertsEnabled, confidenceThreshold, audioCtx, settingsStore,
                 logsStore, inflight, clock, settingChanges, triggered, cycle,
                 sensorsRef, bootVars>>

\* The setInterval callback of the trend effect, due one period after the
\* effect called setInterval (or after the callback last ran).  The point
\* is labelled with the number of the tick.
TrendTick(draws) ==
  /\ ~crashed
  /\ timerAge = TrendPeriod
  /\ history' = TrendAppend(history, TrendPoint(variant, sensors, draws, ticks + 1))
  /\ ticks' = ticks + 1
  /\ timerAge' = 0
  /\ sinceTick' = 0
  /\ UNCHANGED <<variant, apiKey, audioAvailable, isAuthenticated, sensors,
                 mlState, mlConfidence, safetyReport, isAnalyzing, logs,
                 alertsEnabled, confidenceThreshold, audioCtx, settingsStore,
                 logsStore, inflight, clock, settingChanges, triggered, cycle,
                 sensorsRef, bootVars>>

\* A second passes.  A callback that is due runs before more time passes.
TimePasses ==
  /\ ~crashed
  /\ timerAge < TrendPeriod
  /\ timerAge' = timerAge + 1
  /\ sinceTick' = Min(sinceTick + 1, TrendPeriod + 1)
  /\ UNCHANGED <<variant, apiKey, audioAvailable, isAuthenticated, sensors,
                 mlState, mlConfidence, safetyReport, isAnalyzing, history,
                 logs, alertsEnabled, confidenceThreshold, audioCtx,
                 settingsStore, logsStore, inflight, clock, ticks,
                 settingChanges, triggered, cycle, sensorsRef, bootVars>>

\* The page is reloaded: the component is mounted anew, its state comes
\* from the initialisers (variant 1 reads localStorage), the first effects
\* run, and the continuations of the calls that were outstanding are gone.
Restart ==
  /\ restarts' = restarts + 1
  /\ isAuthenticated' = FALSE
  /\ sensors' = INITIAL_SENSORS(variant)
  /\ sensorsRef' = "INITIAL"
  /\ mlState' = "NORMAL"
  /\ mlConfidence' = IF variant = 1 THEN 98 ELSE 99
  /\ safetyReport' = Null
  /\ isAnalyzing' = FALSE
  /\ history' = <<>>
  /\ audioCtx' = FALSE
  /\ inflight' = {}
  /\ cycle' = Null
  /\ timerAge' = 0
  /\ sinceTick' = 0
  /\ crashed' = FALSE
  /\ settingsAtBoot' = settingsStore
  /\ logsAtBoot' = logsStore
  /\ IF variant = 1
     THEN /\ alertsEnabled' = LoadAlertsEnabled(settingsStore)
          /\ confidenceThreshold' = LoadConfidenceThreshold(settingsStore)
          /\ logs' = LoadLogs(logsStore)
          /\ logsIsArray' = LoadLogsIsArray(logsStore)
          /\ settingsStore' = StringifySettings(alertsEnabled', confidenceThreshold')
          /\ logsStore' = StringifyLogsValue(logsIsArray', logs', logsStore)
     ELSE /\ logs' = <<>>
          /\ logsIsArray' = TRUE
          /\ UNCHANGED <<alertsEnabled, confidenceThreshold, settingsStore,
                         logsStore>>
  /\ UNCHANGED <<variant, apiKey, audioAvailable, clock, ticks, settingChanges,
                 triggered>>

\* ------------------------------------------------------- specifications
\* What the oracle's request comes to, in the behaviours of Spec.
OracleOutcomes ==
  {Rejects, Responds(InvalidText), Responds(ObjectText(PartialData)),
   Responds(ObjectText(NoWardenData))}
  \cup {Responds(ObjectText(FullData(st))) : st \in SafetyStatus}

Thresholds == {DefaultThresholdPct, 90}

\* The pipeline: logins, scenario triggers, oracle outcomes, setting changes.
Next ==
  \/ /\ variant = 1 => triggered < MaxCycles
     /\ \E k \in TriggerDraws(variant) : Login(k)
  \/ Logout
  \/ /\ triggered < MaxCycles
     /\ Cardinality(inflight) < MaxInFlight
     /\ \E key \in TriggerKeys(variant), k \in TriggerDraws(variant) :
          triggerScenario(key, k)
  \/ \E call \in inflight, outcome \in OracleOutcomes :
       runAnalysisResumes(call, outcome)
  \/ /\ settingChanges < MaxSettingChanges
     /\ \E b \in BOOLEAN : SetAlertsEnabled(b)
  \/ /\ settingChanges < MaxSettingChanges
     /\ \E t \in Thresholds : SetConfidenceThreshold(t)

Spec == Init /\ [][Next]_vars

\* The pipeline when every oracle call settles: the promise runAnalysis
\* awaits resolves or rejects, and its continuation is then run by the event
\* loop, so a call in flight does not stay in flight for ever.
OracleSettles ==
  \E call \in inflight, outcome \in OracleOutcomes :
    runAnalysisResumes(call, outcome)

SpecLive == Init /\ [][Next]_vars /\ WF_vars(OracleSettles)

\* What the oracle's request comes to, in the behaviours of SpecLog.
LogRunOutcomes == {Rejects, Responds(ObjectText(FullData("DANGER")))}

\* A start of SpecLog: variant 2 with its empty log; variant 1 with nothing
\* stored or with the log an earlier session left one entry short of full.
InitLog ==
  \E audio \in BOOLEAN :
    \/ \E l \in LogsAtStart : Mounted(1, Missing, l, TRUE, audio)
    \/ Mounted(2, Missing, Missing, TRUE, audio)

\* Long runs of the pipeline, one cycle at a time: enough cycles to fill and
\* overflow the log.
NextLog ==
  \/ /\ variant = 1 => triggered < LogRunCycles
     /\ Login(25)
  \/ /\ triggered < LogRunCycles
     /\ inflight = {}
     /\ triggerScenario("NORMAL", IF variant = 1 THEN 25 ELSE 0)
  \/ \E call \in inflight, outcome \in LogRunOutcomes :
       runAnalysisResumes(call, outcome)

SpecLog == InitLog /\ [][NextLog]_vars

\* What the oracle's request comes to, in the behaviours of SpecOracle: the
\* answers of Spec, and answers whose status is absent, empty, in another
\* case, or a word outside the enumeration (the response schema declares
\* status a string and nothing more).
OracleRunOutcomes ==
  {Rejects, Responds(NoText), Responds(NullText), Responds(InvalidText),
   Responds(ObjectText(EmptyObject)), Responds(ObjectText(PartialData))}
  \cup {Responds(ObjectText(FullData(st))) :
          st \in SafetyStatus \cup {"", "danger", "CRITICAL"}}

InitOracle ==
  \E v \in {1, 2}, audio \in BOOLEAN : Mounted(v, Missing, Missing, TRUE, audio)

\* A few escalated cycles, one at a time, over every kind of answer.
NextOracle ==
  \/ /\ variant = 1 => triggered < OracleRunCycles
     /\ Login(25)
  \/ /\ triggered < OracleRunCycles
     /\ inflight = {}
     /\ triggerScenario(IF variant = 1 THEN "GAS_LEAK" ELSE "GAS_DETECTED",
                        IF variant = 1 THEN 25 ELSE 0)
  \/ \E call \in inflight, outcome \in OracleRunOutcomes :
       runAnalysisResumes(call, outcome)

SpecOracle == InitOracle /\ [][NextOracle]_vars

\* The cycles the start of a session triggers by itself: the boot trigger
\* of the first component.
BootCycles(v) == IF v = 1 THEN 1 ELSE 0

InitContext == \E v \in {1, 2} : Mounted(v, Missing, Missing, TRUE, TRUE)

\* Every scenario button with every value Math.random() can contribute, one
\* cycle at a time; the boot trigger with the two ends of the range.
NextContext ==
  \/ /\ triggered = 0
     /\ \E k \in {0, 34} : Login(k)
  \/ /\ triggered < ContextRunPresses + BootCycles(variant)
     /\ inflight = {}
     /\ \E key \in DOMAIN SCENARIOS(variant), k \in RandomSteps(variant) :
          triggerScenario(key, k)
  \/ \E call \in inflight :
       runAnalysisResumes(call, Responds(ObjectText(FullData("SAFE"))))

SpecContext == InitContext /\ [][NextContext]_vars

\* The Math.random() draws of a tick, in the behaviours of SpecTrend.
TrendRunDraws == {<<0, 9, 5>>}

InitTrend == \E v \in {1, 2} : Mounted(v, Missing, Missing, TRUE, TRUE)

\* Long runs of the trend timer, with a few scenario triggers in between:
\* enough ticks to fill and overflow the buffer.
NextTrend ==
  \/ /\ variant = 1 => triggered < TrendRunCycles
     /\ Login(25)
  \/ /\ triggered < TrendRunCycles
     /\ inflight = {}
     /\ \E key \in TriggerKeys(variant) :
          triggerScenario(key, IF variant = 1 THEN 25 ELSE 0)
  \/ \E call \in inflight :
       runAnalysisResumes(call, Responds(ObjectText(PartialData)))
  \/ /\ ticks < TrendRunTicks
     /\ \E draws \in TrendRunDraws : TrendTick(draws)
  \/ /\ ticks < TrendRunTicks
     /\ TimePasses

SpecTrend == InitTrend /\ [][NextTrend]_vars

\* What localStorage[SETTINGS_KEY] may hold at a start: nothing, a text
\* that does not parse, the JSON null, an object without the two fields,
\* an object with one of them, an object whose threshold is a number
\* outside 0..1, or what the settings effect wrote.
BootSettings ==
  {Missing, Corrupt, StoredNull,
   StoredObject([theme |-> Bool(TRUE)]),
   StoredObject([alertsEnabled |-> Bool(FALSE)]),
   StoredObject([alertsEnabled |-> Bool(TRUE), confidenceThreshold |-> Num(150)]),
   StringifySettings(Bool(FALSE), Num(90))}

\* What localStorage[LOCAL_STORAGE_KEY] may hold at a start: nothing, a
\* text that does not parse, the JSON null, another JSON value that is not
\* an array, or what the logs effect wrote.
BootLogs ==
  {Missing, Corrupt, StoredNull, StoredOther, StringifyLogs(PriorLog(2))}

InitBoot ==
  \/ \E s \in BootSettings, l \in BootLogs : Mounted(1, s, l, TRUE, TRUE)
  \/ Mounted(2, Missing, Missing, TRUE, TRUE)

\* Starts and restarts: sessions of a few cycles, one at a time, with
\* setting changes and page reloads in between.
NextBoot ==
  \/ /\ variant = 1 => triggered < BootRunCycles
     /\ Login(10)
  \/ Logout
  \/ /\ triggered < BootRunCycles
     /\ inflight = {}
     /\ triggerScenario(IF variant = 1 THEN "GAS_LEAK" ELSE "GAS_DETECTED",
                        IF variant = 1 THEN 25 ELSE 0)
  \/ \E call \in inflight :
       runAnalysisResumes(call, Responds(ObjectText(FullData("WARNING"))))
  \/ /\ settingChanges < MaxSettingChanges
     /\ \E b \in BOOLEAN : SetAlertsEnabled(b)
  \/ /\ settingChanges < MaxSettingChanges
     /\ \E t \in Thresholds : SetConfidenceThreshold(t)
  \/ /\ restarts < MaxRestarts
     /\ Restart

SpecBoot == InitBoot /\ [][NextBoot]_vars

\* A start of SpecFrame: the first component with nothing stored or with a
\* log of two entries from an earlier session, the second with its empty
\* log; with and without an API key.
InitFrame ==
  \E key \in BOOLEAN :
    \/ \E l \in {Missing, StringifyLogs(PriorLog(2))} :
         Mounted(1, Missing, l, key, TRUE)
    \/ Mounted(2, Missing, Missing, key, TRUE)

\* Everything that can happen around the log: logins and logouts, cycles
\* that the gate skips, calls that fail or succeed, setting changes and
\* trend ticks.
NextFrame ==
  \/ /\ variant = 1 => triggered < FrameRunCycles
     /\ \E k \in {0, 25} : Login(k)
  \/ Logout
  \/ /\ triggered < FrameRunCycles
     /\ inflight = {}
     /\ \E k \in (IF variant = 1 THEN {0, 25} ELSE {0}) :
          triggerScenario(IF variant = 1 THEN "GAS_LEAK" ELSE "GAS_DETECTED", k)
  \/ \E call \in inflight, outcome \in LogRunOutcomes :
       runAnalysisResumes(call, outcome)
  \/ /\ settingChanges < MaxSettingChanges
     /\ \E b \in BOOLEAN : SetAlertsEnabled(b)
  \/ /\ settingChanges < MaxSettingChanges
     /\ \E t \in Thresholds : SetConfidenceThreshold(t)
  \/ /\ ticks < FrameRunTicks
     /\ \E draws \in TrendRunDraws : TrendTick(draws)
  \/ /\ ticks < FrameRunTicks
     /\ TimePasses

SpecFrame == InitFrame /\ [][NextFrame]_vars

\* --------------------------------------------------------------- claims
\* The cycles the state still holds a record of: the one the latest
\* pipeline step belonged to, and those whose oracle call is outstanding.
Known == (IF cycle = Null THEN {} ELSE {cycle}) \cup inflight

\* The cycle of the latest pipeline step has ended (its handler or its
\* continuation has run to the end).
Ended == cycle # Null /\ cycle.phase # "analyzing"

\* A cycle whose confidence is strictly below the configured threshold.
BelowThreshold(c) ==
  c.threshold.t = "num" /\ c.context.ml_confidence < c.threshold.v

\* A cycle whose confidence is at or above the configured threshold; a
\* variant without a threshold escalates every cycle.
AtOrAboveThreshold(c) ==
  \/ c.threshold.t = "num" /\ c.context.ml_confidence >= c.threshold.v
  \/ variant = 2

\* C1: in every cycle whose generated confidence is strictly below the
\* configured threshold, the oracle is never invoked (no call is made or
\* outstanding for it) and the report published for it has status SAFE.
C1_GateBlocksOracle ==
  \A c \in Known :
    BelowThreshold(c) =>
      /\ c.oracleCalls = 0
      /\ c \notin inflight
      /\ c.phase = "skipped"
      /\ c.published # Null
      /\ c.published.status = "SAFE"
      /\ c = cycle => safetyReport = c.published /\ safetyReport.status = "SAFE"

\* Witness of C1: a cycle of variant 1 was triggered at 65% under the
\* default threshold of 75% and was gate-skipped.
C1_Witness ==
  /\ cycle # Null
  /\ variant = 1
  /\ cycle.threshold = Num(DefaultThresholdPct)
  /\ BelowThreshold(cycle)
  /\ cycle.phase = "skipped"
  /\ safetyReport = GateSkipReport(cycle.context.ml_confidence)

\* C2: in every cycle whose confidence is at or above the threshold
\* (equality included) the oracle is invoked exactly once: the cycle has one
\* call, no cycle has two calls outstanding, and a cycle that has ended
\* (also by a failure) has no call outstanding any more.
C2_OracleOncePerCycle ==
  /\ \A c \in Known :
       AtOrAboveThreshold(c) =>
         /\ c.oracleCalls = 1
         /\ c.escalated
         /\ c.phase = "analyzing" <=> c \in inflight
  /\ \A c, d \in inflight : c.id = d.id => c = d
  /\ Ended => \A c \in inflight : c.id # cycle.id
  /\ \A c \in inflight : c.id <= triggered

\* Witness of C2: a cycle whose confidence equals the threshold has ended
\* by an oracle failure, after exactly one call.
C2_Witness ==
  /\ Ended
  /\ cycle.threshold.t = "num"
  /\ cycle.context.ml_confidence = cycle.threshold.v
  /\ cycle.phase = "completed"
  /\ cycle.failed
  /\ cycle.oracleCalls = 1

\* C3 (as claimed): analyzeSafetyContext never rejects, so every escalated
\* cycle that has ended has published a report, and the report of a cycle
\* whose oracle invocation failed, client construction included, is the
\* fixed fallback report.
C3_FailureBecomesFallback ==
  Ended /\ cycle.escalated =>
    /\ cycle.published # Null
    /\ cycle.failed => cycle.published = FallbackReport /\ safetyReport = FallbackReport

\* C4 (as claimed): a cycle whose oracle call failed has appended its log
\* entry, with status SAFE and the classifier state of its context.
C4_FailedCycleLogged ==
  Ended /\ cycle.failed =>
    /\ cycle.logged = 1
    /\ Len(logs) > 0
    /\ Head(logs).status = "SAFE"
    /\ Head(logs).ml_state = cycle.context.ml_state

\* C5 (as claimed): every completed cycle, a gate-skipped one included, has
\* appended exactly one log entry.
C5_EveryCycleLogged ==
  cycle # Null /\ cycle.phase \in {"skipped", "completed"} => cycle.logged = 1

C7_AppendAtHeadEvictOldest ==
  [][logs' # logs \/ (cycle' # cycle /\ cycle'.logged = 1) =>
       /\ Len(logs') > 0
       /\ Head(logs').timestamp = clock
       /\ Head(logs').status = safetyReport'.status
       /\ Len(logs') = IF Len(logs) = LogCap(variant)
                       THEN LogCap(variant) ELSE Len(logs) + 1
       /\ Tail(logs') = SubSeq(logs, 1, Len(logs') - 1)]_vars

\* Witness of C7: in variant 2 a cycle has appended to a full log, and the
\* entry now last is older than the cycle's own.
C7_Witness ==
  /\ Ended
  /\ variant = 2
  /\ cycle.logged = 1
  /\ cycle.lenBefore = LogCap(variant)
  /\ logs[Len(logs)].timestamp < Head(logs).timestamp

\* C8: the trend buffer never holds more than 20 points; a tick appends its
\* point at the end, and on a buffer of 20 points it evicts exactly the
\* first point and keeps the others in their order.
C8_TrendWithinCapEvictOldest ==
  /\ [](Len(history) <= TrendCap)
  /\ [][ticks' # ticks =>
          /\ Len(history') = IF Len(history) = TrendCap
                             THEN TrendCap ELSE Len(history) + 1
          /\ history'[Len(history')].time = ticks'
          /\ Len(history) = TrendCap =>
               SubSeq(history', 1, TrendCap - 1) = Tail(history)
          /\ Len(history) < TrendCap =>
               SubSeq(history', 1, Len(history)) = history]_vars

\* Witness of C8: more than 20 ticks have fired, the buffer holds 20 points,
\* the oldest of them from the tick that followed the evicted ones.
C8_Witness ==
  /\ ticks > TrendCap
  /\ Len(history) = TrendCap
  /\ history[1].time = ticks - TrendCap + 1
  /\ history[TrendCap].time = ticks

\* The number of tones a status calls for.
BurstFor(status, n) ==
  /\ status = "DANGER" => n \in {3, 4}
  /\ status = "WARNING" => n \in {1, 2}
  /\ status = "SAFE" => n = 0

DispatcherActive(c) ==
  /\ variant = 2 \/ Truthy(c.enabledSeen)
  /\ audioAvailable

C10_DisabledMeansSilent ==
  /\ Ended
  /\ variant = 1
  /\ audioAvailable
  /\ cycle.flagAtReport # Null
  /\ ~Truthy(cycle.flagAtReport)
  => /\ cycle.beeps = <<>>
     /\ cycle.published # Null
     /\ safetyReport = cycle.published
     /\ cycle.logged = 1

\* The dispatcher of the cycle was called, got past the alerts flag and
\* could not create the audio context.
AudioFailed(c) ==
  /\ c.playCalled
  /\ ~ReturnsEarly(variant, c.enabledSeen)
  /\ ~audioAvailable

\* C11 (as claimed): when the audio facility fails while the alert of a
\* cycle is dispatched, the failure is swallowed: the report of the cycle
\* stays published, and the log entry of the cycle is appended and (where
\* the log is persisted) stored.
C11_AudioFailureSwallowed ==
  Ended /\ AudioFailed(cycle) =>
    /\ cycle.published # Null
    /\ safetyReport = cycle.published
    /\ cycle.logged = 1
    /\ Len(logs) > 0
    /\ Head(logs).status = cycle.published.status
    /\ variant = 1 => logsStore = StringifyLogs(logs)

\* C12 (as claimed): at most one oracle call is outstanding at any time.
C12_OneCallInFlight == Cardinality(inflight) <= 1

\* The stored log record is missing, does not parse, or parses to something
\* that is not a sequence of log entries.
NoStoredLog == logsAtBoot.kind \in {"missing", "corrupt", "null", "other"}

\* C13 (as claimed): when the stored log record is missing, not parsable or
\* not a sequence of log entries, the log in memory starts as the empty
\* sequence (it is an array, and empty until a cycle appends to it), and
\* the reads of the log succeed (no render throws).
C13_StartSurvivesStoredLog ==
  variant = 1 /\ NoStoredLog =>
    /\ logsIsArray
    /\ ~crashed
    /\ cycle = Null => logs = <<>>

\* Does the stored settings record hold the field?
HasField(saved, f) == saved.kind = "object" /\ f \in DOMAIN saved.data

\* No login (and so no setting change) since the start.
JustStarted == ~isAuthenticated /\ cycle = Null /\ ~crashed

\* C14 (as claimed): at a start each setting takes the stored value when
\* the stored record holds its field, and its default (alerts enabled,
\* threshold 75%) when the record is missing, unparsable or without the
\* field.
C14_SettingsDefaultOrStored ==
  variant = 1 /\ JustStarted =>
    /\ alertsEnabled =
         IF HasField(settingsAtBoot, "alertsEnabled")
         THEN settingsAtBoot.data.alertsEnabled ELSE Bool(TRUE)
    /\ confidenceThreshold =
         IF HasField(settingsAtBoot, "confidenceThreshold")
         THEN settingsAtBoot.data.confidenceThreshold
         ELSE Num(DefaultThresholdPct)

\* C15 (as claimed): after every append the stored log equals the log in
\* memory, the stored settings equal the settings in memory, and a restart
\* brings the log back exactly as it was held before.
C15_PersistenceInSync ==
  /\ [](cycle # Null /\ cycle.logged = 1 => logsStore = StringifyLogs(logs))
  /\ [](variant = 1 =>
          settingsStore = StringifySettings(alertsEnabled, confidenceThreshold))
  /\ [][restarts' # restarts /\ logsIsArray => logs' = logs]_vars

\* The oracle's request of the cycle was answered with a JSON object.
AnsweredWithObject(c) ==
  /\ c.outcome # Null
  /\ c.outcome.kind = "response"
  /\ c.outcome.text.json = "object"

\* C16: when the oracle answers with an object in which some fields are
\* absent, the call is a success: the published report takes the fields
\* present and the defaults for the absent ones (status SAFE, summary "No
\* analysis available.", no user actions, warden actions "None needed."),
\* and it is not the communication-error fallback report.
C16_PartialAnswerIsSuccess ==
  Ended /\ AnsweredWithObject(cycle) =>
    LET data == cycle.outcome.text.data
        given(f) == f \in DOMAIN data
    IN /\ ~cycle.failed
       /\ cycle.published # Null
       /\ cycle.published # FallbackReport
       /\ safetyReport = cycle.published
       /\ cycle.published.status =
            IF given("status") THEN data.status ELSE "SAFE"
       /\ cycle.published.summary =
            IF given("summary") THEN data.summary ELSE "No analysis available."
       /\ cycle.published.actions_for_user =
            IF given("actions_for_user") THEN data.actions_for_user ELSE <<>>
       /\ cycle.published.actions_for_warden =
            IF given("actions_for_warden") THEN data.actions_for_warden
            ELSE <<"None needed.">>

\* Witness of C16: an answer with status DANGER and without warden actions
\* was published as a DANGER report with the warden actions defaulted.
C16_Witness ==
  /\ Ended
  /\ AnsweredWithObject(cycle)
  /\ "actions_for_warden" \notin DOMAIN cycle.outcome.text.data
  /\ cycle.published.status = "DANGER"
  /\ cycle.published.actions_for_warden = <<"None needed.">>
  /\ safetyReport.status = "DANGER"

\* C17 (as claimed): whatever the pipeline does, a trend point is appended
\* every period: never more than one period passes without a tick.
C17_TickEveryPeriod == sinceTick <= TrendPeriod

\* C18: each gate decision uses the threshold of the moment of the
\* decision.  A cycle is escalated exactly when its confidence is at or
\* above the threshold that was configured when it was triggered; a change
\* of the threshold touches no report, no outstanding call and no log
\* entry; and a call that was in flight during a change still ends as the
\* cycle it was decided to be, with the oracle's report published.
C18_ThresholdReadAtDecision ==
  /\ [](\A c \in Known :
          variant = 1 =>
            (c.escalated <=>
               c.threshold.t = "num" /\ c.context.ml_confidence >= c.threshold.v))
  /\ [][triggered' = triggered + 1 => cycle'.threshold = confidenceThreshold]_vars
  /\ [][confidenceThreshold' # confidenceThreshold =>
          /\ inflight' = inflight
          /\ cycle' = cycle
          /\ safetyReport' = safetyReport
          /\ logs' = logs
          /\ logsStore' = logsStore]_vars
  /\ [][inflight' # inflight /\ inflight' \subseteq inflight =>
          \E c \in inflight \ inflight' :
            /\ cycle'.id = c.id
            /\ cycle'.threshold = c.threshold
            /\ cycle'.escalated
            /\ cycle'.oracleCalls = 1
            /\ cycle'.published # Null
            /\ safetyReport' = cycle'.published
            /\ cycle'.logged = 1 =>
                 Head(logs').ml_state = c.context.ml_state]_vars

\* Witness of C18: a cycle escalated at 75% under a threshold of 75% has
\* completed, with the oracle's DANGER report published and logged, after
\* the threshold was raised to 90% while its call was in flight.
C18_Witness ==
  /\ Ended
  /\ variant = 1
  /\ cycle.phase = "completed"
  /\ cycle.threshold = Num(DefaultThresholdPct)
  /\ confidenceThreshold = Num(90)
  /\ cycle.context.ml_confidence < confidenceThreshold.v
  /\ cycle.published.status = "DANGER"
  /\ safetyReport = cycle.published
  /\ cycle.logged = 1
  /\ Head(logs).status = "DANGER"

\* The place of a phase in the order ASSEMBLING, GATING, SKIPPED or
\* ANALYZING, REPORT_READY, ALERTING and LOGGING, IDLE.
PhaseRank(e) ==
  CASE e = "ASSEMBLING" -> 1
    [] e = "GATING" -> 2
    [] e \in {"SKIPPED", "ANALYZING"} -> 3
    [] e = "REPORT_READY" -> 4
    [] e \in {"ALERTING", "LOGGING"} -> 5
    [] e = "IDLE" -> 6

\* The places at which a phase occurs in the steps of a cycle.
Places(ev, e) == {i \in 1 .. Len(ev) : ev[i] = e}

\* C19: the steps of every cycle occur in the order of the phases: each
\* step belongs to a later phase than the step before it (ALERTING and
\* LOGGING share a phase), no phase occurs twice, the oracle is called only
\* after the gate was asked and passed, and the alert dispatch and the log
\* append of a cycle come only after its report was produced.
C19_PhasesInOrder ==
  \A c \in Known :
    LET ev == c.events IN
    /\ ev[1] = "ASSEMBLING"
    /\ \A i \in 1 .. Len(ev) - 1 :
         \/ PhaseRank(ev[i]) < PhaseRank(ev[i + 1])
         \/ ev[i] = "ALERTING" /\ ev[i + 1] = "LOGGING"
    /\ (c.oracleCalls > 0) = (Places(ev, "ANALYZING") # {})
    /\ Places(ev, "ANALYZING") # {} =>
         /\ c.escalated
         /\ variant = 1 =>
              /\ \E i \in Places(ev, "GATING") :
                   \A j \in Places(ev, "ANALYZING") : i < j
              /\ c.threshold.t = "num"
              /\ c.context.ml_confidence >= c.threshold.v
    /\ (c.playCalled \/ c.beeps # <<>>) => Places(ev, "ALERTING") # {}
    /\ (c.logged > 0) = (Places(ev, "LOGGING") # {})
    /\ \A j \in Places(ev, "ALERTING") \cup Places(ev, "LOGGING") :
         /\ c.published # Null
         /\ \E i \in Places(ev, "REPORT_READY") : i < j
    /\ (c.published # Null) = (Places(ev, "REPORT_READY") # {})
    /\ (c.phase = "analyzing") = (ev[Len(ev)] = "ANALYZING")
    /\ (c.phase # "analyzing") = (ev[Len(ev)] = "IDLE")

\* Witness of C19: a cycle of variant 1 went through every phase: gate
\* passed, oracle called, report published, tones scheduled, entry logged.
C19_Witness ==
  /\ Ended
  /\ cycle.events = <<"ASSEMBLING", "GATING", "ANALYZING", "REPORT_READY",
                      "ALERTING", "LOGGING", "IDLE">>
  /\ cycle.beeps # <<>>
  /\ cycle.logged = 1
  /\ safetyReport = cycle.published

\* C20: in every cycle whose oracle call failed, no tone is scheduled: the
\* dispatcher is not called, and the report published for the cycle, if
\* one is, is the fallback report with status SAFE.
C20_FailedCallIsSilent ==
  Ended /\ cycle.failed =>
    /\ cycle.beeps = <<>>
    /\ ~cycle.playCalled
    /\ cycle.published # Null =>
         /\ cycle.published.status = "SAFE"
         /\ cycle.published.summary =
              "Communication error with AI. Falling back to local heuristics."
         /\ safetyReport = cycle.published

\* Witness of C20: with alerts enabled and audio available, the request of
\* a cycle was rejected, the fallback report was published and logged, and
\* no tone was scheduled.
C20_Witness ==
  /\ Ended
  /\ cycle.failed
  /\ cycle.outcome = Rejects
  /\ DispatcherActive(cycle)
  /\ cycle.published.status = "SAFE"
  /\ safetyReport = cycle.published
  /\ cycle.beeps = <<>>
  /\ cycle.logged = 1

\* C21 (as claimed): when an escalated cycle has completed with an oracle
\* report, the head of the log is the entry of that cycle (stamped at the
\* completion), with the status of the report and the classifier state of
\* the submitted context, and with alerts enabled the tones scheduled are
\* the pattern of that status.
C21_CompletionHeadsLog ==
  Ended /\ cycle.escalated /\ cycle.published # Null =>
    /\ cycle.logged = 1
    /\ Len(logs) > 0
    /\ Head(logs).timestamp = clock - 1
    /\ Head(logs).status = cycle.published.status
    /\ Head(logs).ml_state = cycle.context.ml_state
    /\ variant = 2 \/ Truthy(cycle.flagAtReport) =>
         cycle.beeps = AlertPattern(variant, cycle.published.status)

\* The percentages a summary built from the given template parts states.
PercentagesStated(parts) ==
  {parts[i].pct : i \in {j \in DOMAIN parts : "pct" \in DOMAIN parts[j]}}

\* C22 (as claimed): the summary of a gate-skip report states both the
\* measured confidence and the threshold in force at the decision, and its
\* two action lists are the fixed manual-check set.
C22_SkipSummaryStatesBoth ==
  cycle # Null /\ cycle.phase = "skipped" =>
    LET parts == GateSkipSummary(cycle.context.ml_confidence) IN
    /\ cycle.published.summary = Interpolate(parts)
    /\ cycle.context.ml_confidence \in PercentagesStated(parts)
    /\ cycle.threshold.v \in PercentagesStated(parts)
    /\ cycle.published.actions_for_user = <<"Manual sensor check recommended.">>
    /\ cycle.published.actions_for_warden = <<"Monitor logs.">>

\* What the code does state: the measured confidence alone.
C22_SkipSummaryStatesConfidence ==
  cycle # Null /\ cycle.phase = "skipped" =>
    LET parts == GateSkipSummary(cycle.context.ml_confidence) IN
    /\ cycle.published.summary = Interpolate(parts)
    /\ PercentagesStated(parts) = {cycle.context.ml_confidence}
    /\ cycle.published.actions_for_user = <<"Manual sensor check recommended.">>
    /\ cycle.published.actions_for_warden = <<"Monitor logs.">>

\* The cycle with identity n has finished with a report published.
FinishedWithReport(n) ==
  cycle # Null /\ cycle.id = n /\ Ended /\ cycle.published # Null

\* No call is in flight and the analyzing indicator is off.
Idle == inflight = {} /\ ~isAnalyzing

\* C23 (as claimed): provided every oracle call settles, every triggered
\* cycle eventually finishes with its report published, and the pipeline
\* comes back to idle with the analyzing indicator cleared.
C23_EveryCycleFinishes ==
  /\ \A n \in 1 .. MaxCycles :
       (cycle # Null /\ cycle.id = n) ~> FinishedWithReport(n)
  /\ (isAnalyzing \/ inflight # {}) ~> Idle

\* The part of it that the code keeps: no outcome of the call leaves the
\* pipeline analyzing, and a cycle whose request was made gets a report.
C23_NeverStuckAnalyzing ==
  /\ \A n \in 1 .. MaxCycles :
       (cycle # Null /\ cycle.id = n /\ cycle.phase # "rejected")
         ~> FinishedWithReport(n)
  /\ (isAnalyzing \/ inflight # {}) ~> Idle

\* C24 (as claimed): the status of the displayed report and of every log
\* entry is one of SAFE, WARNING, DANGER, whatever the oracle put in the
\* status field.
C24_StatusIsEnumerated ==
  /\ safetyReport # Null => safetyReport.status \in SafetyStatus
  /\ \A i \in 1 .. Len(logs) : logs[i].status \in SafetyStatus

\* What the code does with the field: absent or empty it becomes SAFE, any
\* other string is taken over as it is.
C24_StatusDefaultedWhenFalsy ==
  Ended /\ cycle.outcome # Null /\ cycle.outcome.kind = "response"
        /\ cycle.outcome.text.json = "object" =>
    LET data == cycle.outcome.text.data IN
    cycle.published.status =
      IF "status" \in DOMAIN data /\ data.status # "" THEN data.status
      ELSE "SAFE"

\* C25: every context that reaches the gate (of a cycle just handled or of
\* a call in flight) has a confidence between 0 and 1 (0% and 100%) and a
\* classifier state of the enumeration, and so have the values displayed.
C25_ContextWellFormed ==
  /\ \A c \in Known :
       /\ 0 <= c.context.ml_confidence /\ c.context.ml_confidence <= 100
       /\ c.context.ml_state \in MLState
  /\ 0 <= mlConfidence /\ mlConfidence <= 100
  /\ mlState \in MLState

\* A scenario other than NORMAL reached the gate with the highest confidence
\* the generator yields.
C25_Witness ==
  /\ cycle # Null
  /\ cycle.context.ml_state # "NORMAL"
  /\ cycle.context.ml_confidence = IF variant = 1 THEN 99 ELSE 98
  /\ cycle.escalated

\* C26: whatever the interleaving of overlapping cycles, the log is ordered
\* newest first: timestamps never increase from the head to the tail.
C26_LogNewestFirst ==
  \A i, j \in 1 .. Len(logs) :
    i < j => logs[i].timestamp >= logs[j].timestamp

\* Two overlapping cycles completed in the reverse of their trigger order:
\* the cycle triggered first was logged last, on top of the other's entry.
C26_Witness ==
  /\ cycle # Null /\ cycle.id = 1 /\ triggered = 2
  /\ cycle.phase = "completed" /\ cycle.logged = 1
  /\ Len(logs) = 2
  /\ cycle.lenBefore = 1
  /\ logs[2].timestamp > cycle.context.time

\* The step puts one entry at the head and keeps the entries that were in
\* the log, in their order, up to the capacity.
AppendsWithEviction ==
  /\ Len(logs') = Min(Len(logs) + 1, LogCap(variant))
  /\ Tail(logs') = SubSeq(logs, 1, Len(logs') - 1)

\* C27 (as claimed): entries leave the log only by the eviction of an
\* append: every step either leaves the log as it is or puts one entry at
\* the head of the entries that were there.
C27_EntriesLeaveOnlyByEviction ==
  [][logs' = logs \/ AppendsWithEviction]_vars

\* The events the claim lists: a cycle the gate skips, a setting change, a
\* trend tick, a logout and a login leave the log as it is; a call that
\* fails leaves it as it is or appends.
C27_ListedEventsKeepEntries ==
  [][/\ cycle' # cycle /\ cycle' # Null /\ cycle'.phase = "skipped" => logs' = logs
     /\ settingChanges' # settingChanges => logs' = logs
     /\ ticks' # ticks => logs' = logs
     /\ isAuthenticated' # isAuthenticated /\ restarts' = restarts => logs' = logs
     /\ cycle' # cycle /\ cycle' # Null /\ cycle'.failed =>
          logs' = logs \/ AppendsWithEviction
     /\ restarts' = restarts => logs' = logs \/ AppendsWithEviction]_vars

\* C28: the context of a cycle is fixed when the cycle is triggered. The
\* context assembled by a trigger has the classifier state and sensors the
\* trigger sets, and it is the one handed to the oracle call; the context of
\* a call in flight does not change while other steps happen; and the entry
\* a completing cycle logs has the classifier state and sensor summary of
\* that context.
C28_ContextFixedAtTrigger ==
  [][/\ triggered' # triggered =>
          /\ cycle'.context.ml_state = mlState'
          /\ cycle'.context.sensors = sensors'
          /\ cycle'.context.time = clock
          /\ \A c \in inflight' \ inflight : c.context = cycle'.context
     /\ \A c \in inflight :
          \A d \in inflight' \cup (IF cycle' = Null THEN {} ELSE {cycle'}) :
            c.id = d.id => d.context = c.context
     /\ cycle' # cycle /\ cycle' # Null /\ cycle'.logged = 1 =>
          /\ Head(logs').ml_state = cycle'.context.ml_state
          /\ Head(logs').sensor_summary =
               SensorSummary(variant, cycle'.context.sensors)]_vars

\* A cycle has completed and logged its own classifier state and sensors
\* after a later trigger had put another scenario on display.
C28_Witness ==
  /\ Ended /\ cycle.logged = 1
  /\ cycle.id < triggered
  /\ mlState # cycle.context.ml_state
  /\ sensors # cycle.context.sensors
  /\ Head(logs).ml_state = cycle.context.ml_state
  /\ Head(logs).sensor_summary = SensorSummary(variant, cycle.context.sensors)

\* C29 (as claimed): once no evaluation is in flight, the report on display
\* is the one of the cycle triggered last: the cycle that published last is
\* the one triggered last.
C29_LatestCycleReportShown ==
  inflight = {} /\ Ended /\ cycle.published # Null =>
    /\ safetyReport = cycle.published
    /\ cycle.id = triggered

\* C30 (as claimed): the analyzing indicator is on exactly when at least
\* one oracle call is in flight.
C30_IndicatorMatchesInFlight == isAnalyzing <=> inflight # {}

\* What the code keeps of it: with no call in flight the indicator is off.
C30_IndicatorOffWhenIdle == inflight = {} => ~isAnalyzing

\* C31: the trend buffer and the pipeline do not write each other's state.
\* A trend tick leaves the report, the log, the settings, the analyzing
\* indicator and the calls in flight as they are; a step of a cycle (its
\* trigger, skipped or escalated, and its completion, successful or failed)
\* leaves the trend buffer as it is.
C31_TrendAndPipelineApart ==
  [][/\ ticks' # ticks =>
          /\ history' # history
          /\ UNCHANGED <<safetyReport, logs, logsStore, alertsEnabled,
                         confidenceThreshold, settingsStore, isAnalyzing,
                         inflight, cycle>>
     /\ cycle' # cycle /\ cycle' # Null => history' = history]_vars

\* A point sampled from the initial sensors was in the buffer when another
\* scenario was triggered, and that cycle has since completed and logged
\* with the point still there.
C31_Witness ==
  /\ Len(history) = 1
  /\ \E draws \in TrendRunDraws :
       history[1] = TrendPoint(variant, INITIAL_SENSORS(variant), draws, 1)
  /\ Ended /\ cycle.phase = "completed" /\ cycle.logged = 1
  /\ cycle.context.sensors # INITIAL_SENSORS(variant)
  /\ safetyReport = cycle.published

\* The point is derived from the snapshot s: temperature within 0.5 of the
\* snapshot's (tenths of a degree), gas and noise not below the snapshot's
\* (in the point's units, see TrendPoint).
DerivedFrom(point, s) ==
  /\ point.temp - s.avg_temperature_c <= 5
  /\ s.avg_temperature_c - point.temp <= 5
  /\ point.gas >= s.gas_level * 10
  /\ point.noise >= s.noise_level * 10

\* C32: every trend point is sampled from the sensor snapshot current at
\* its tick: the point a tick appends is derived from the sensors of that
\* moment, also after scenario triggers have replaced the snapshot.
C32_PointFromCurrentSnapshot ==
  [][ticks' # ticks =>
       /\ Len(history') > 0
       /\ history'[Len(history')].time = ticks'
       /\ DerivedFrom(history'[Len(history')], sensors)]_vars

\* The buffer holds a point sampled from the initial snapshot and, after a
\* trigger of the gas scenario replaced it, a later point sampled from the
\* new snapshot, which the old snapshot would not account for.
C32_Witness ==
  /\ Len(history) >= 2
  /\ DerivedFrom(history[1], INITIAL_SENSORS(variant))
  /\ sensors # INITIAL_SENSORS(variant)
  /\ DerivedFrom(history[Len(history)], sensors)
  /\ history[Len(history)].gas > history[1].gas + 100

\* C33 (as claimed): in every state of the component that has a gate, the
\* confidence threshold is a number between 0 and 1 (0% and 100%), the
\* state right after the settings are loaded included.
C33_ThresholdInRange ==
  variant = 1 =>
    /\ confidenceThreshold.t = "num"
    /\ 0 <= confidenceThreshold.v /\ confidenceThreshold.v <= 100

\* What the code keeps of it: a threshold that is a number is the default,
\* a value the settings control set, or the number the stored record held.
C33_ThresholdIsDefaultSetOrStored ==
  variant = 1 /\ confidenceThreshold.t = "num" =>
    \/ confidenceThreshold.v \in Thresholds
    \/ /\ HasField(settingsAtBoot, "confidenceThreshold")
       /\ confidenceThreshold = settingsAtBoot.data.confidenceThreshold

\* The step is a dispatch: the continuation of a cycle called
\* playAlertSound.
Dispatches == cycle' # cycle /\ cycle' # Null /\ cycle'.playCalled

\* Alerts are enabled as the step begins (variant 2 has no such setting).
AlertsOn == variant = 2 \/ Truthy(alertsEnabled)

\* C34 (as claimed): the audio context is created lazily and at most once.
\* Once created it stays; it is created only by a dispatch, and only while
\* alerts are enabled; and on a platform with audio the first dispatch that
\* runs with alerts enabled creates it.
C34_AudioContextLazyOnce ==
  [][/\ audioCtx => audioCtx'
     /\ ~audioCtx /\ audioCtx' => Dispatches /\ AlertsOn
     /\ Dispatches /\ AlertsOn /\ audioAvailable => audioCtx']_vars

\* What the code keeps of it: the same, with the alerts setting as the
\* dispatcher of the cycle sees it (the value at the cycle's trigger).
C34_LazyOnceAsDispatcherSees ==
  [][/\ audioCtx => audioCtx'
     /\ ~audioCtx /\ audioCtx' => Dispatches /\ DispatcherActive(cycle')
     /\ Dispatches /\ DispatcherActive(cycle') => audioCtx']_vars
====
